---- MODULE Spec2Model ----
(***************************************************************************)
(* Model of src-tauri/src/lib.rs: the setup closure of run() (menu         *)
(* construction, menu installation, shortcut selection, window lookup,     *)
(* global-shortcut registration), the Builder::run(..).expect(..) that     *)
(* consumes the closure's result, and the registered shortcut callback.    *)
(* Every fallible framework call (a call followed by `?`) draws its        *)
(* outcome from BOOLEAN; the window lookup draws Some/None.                *)
(***************************************************************************)
EXTENDS Integers, Sequences, FiniteSets, TLC

\* Bound on the number of shortcut events the hotkey facility delivers.
MaxTriggers == 3

\* Option values: the window is a label or None; the other options are
\* sequences, Nothing or Some(x).
None == "None"
Nothing == <<>>
Some(x) == <<x>>

\* cfg(target_os = ...) values the crate is built for.
Platforms == {"macos", "linux", "windows"}

\* States of a shortcut event handed to the callback (_event.state).
EventStates == {"Pressed", "Released"}

\* The item constructors called inside each Submenu::with_items, in
\* evaluation order: <<constructor, text argument>>.
ItemPlan ==
    << << <<"about", "About Bolt">>, <<"separator", None>>, <<"quit", "Quit Bolt">> >>,
       << <<"undo", "Undo">>, <<"redo", "Redo">>, <<"separator", None>>,
          <<"cut", "Cut">>, <<"copy", "Copy">>, <<"paste", "Paste">>,
          <<"select_all", "Select All">> >>,
       << <<"minimize", "Minimize">>, <<"maximize", "Zoom">>,
          <<"separator", None>>, <<"close_window", "Close">> >> >>

\* The text argument of each Submenu::with_items call.
SubmenuText == <<"Bolt", "Edit", "Window">>

\* PredefinedMenuItem::<ctor>(app, text): the node a constructor yields.
PredefinedMenuItem(ctor, text) ==
    IF ctor = "separator" THEN [kind |-> "Separator"]
    ELSE [kind |-> CASE ctor = "about"        -> "About"
                     [] ctor = "quit"         -> "Quit"
                     [] ctor = "undo"         -> "Undo"
                     [] ctor = "redo"         -> "Redo"
                     [] ctor = "cut"          -> "Cut"
                     [] ctor = "copy"         -> "Copy"
                     [] ctor = "paste"        -> "Paste"
                     [] ctor = "select_all"   -> "SelectAll"
                     [] ctor = "minimize"     -> "Minimize"
                     [] ctor = "maximize"     -> "Maximize"
                     [] ctor = "close_window" -> "Close",
          label |-> text]

\* Submenu::with_items(app, text, true, &[items]).
Submenu(text, its) == [label |-> text, enabled |-> TRUE, children |-> its]

\* Shortcut::new(Some(mods), code).
Shortcut(mods, code) == [mods |-> mods, key |-> code]

ShortcutFor_ctrl(p) == Shortcut({"CONTROL"}, "KeyK")

\* The cfg-selected `let shortcut = ...`.
ShortcutFor(p) ==
    IF p = "macos" THEN Shortcut({"SUPER"}, "KeyK")
    ELSE Shortcut({"CONTROL"}, "KeyK")

\* Result values of the setup closure.
Ok == <<"Ok">>
Err(src) == <<"Err", src>>
IsErr(r) == Len(r) = 2 /\ r[1] = "Err"

VARIABLES
    platform,      \* target_os the crate was compiled for
    pc,            \* position in run()
    g,             \* index of the submenu under construction (1..3)
    items,         \* items built so far for submenu g
    submenus,      \* <<app_menu, edit_menu, window_menu>> built so far
    menu,          \* the Menu built at line 53, Some(tree) or Nothing
    ctorCalls,     \* menu-node constructor calls made: [ctor, ok], in order
    installed,     \* app.set_menu calls made: [menu, ok], in order
    shortcut,      \* the selected shortcut, Some(s) or Nothing
    lookups,       \* labels passed to app.get_webview_window, in call order
    window,        \* the Option<WebviewWindow> bound by `if let`
    regCalls,      \* on_shortcut calls made: [shortcut, ok], in order
    handlers,      \* the hotkey facility's registered handlers
    setupResult,   \* value returned by the setup closure, or Nothing
    status,        \* "starting", "running" or "panicked"
    delivered,     \* states of the shortcut events delivered so far
    focusLog       \* window.set_focus() calls made, in order

vars == <<platform, pc, g, items, submenus, menu, ctorCalls, installed, shortcut,
          lookups, window, regCalls, handlers, setupResult, status, delivered,
          focusLog>>

Init ==
    /\ platform \in Platforms
    /\ pc = "items"
    /\ g = 1
    /\ items = <<>>
    /\ submenus = <<>>
    /\ menu = Nothing
    /\ ctorCalls = <<>>
    /\ installed = <<>>
    /\ shortcut = Nothing
    /\ lookups = <<>>
    /\ window = None
    /\ regCalls = <<>>
    /\ handlers = {}
    /\ setupResult = Nothing
    /\ status = "starting"
    /\ delivered = <<>>
    /\ focusLog = <<>>

\* The `?` operator on an Err: the closure returns the error at once.
Fail(src) ==
    /\ setupResult' = Err(src)
    /\ pc' = "run"

BuildItem_prepend ==
    /\ pc = "items"
    /\ \E ok \in BOOLEAN :
        LET c == ItemPlan[g][Len(items) + 1] IN
        /\ ctorCalls' = Append(ctorCalls, [ctor |-> c[1], ok |-> ok])
        /\ IF ok
           THEN /\ items' = <<PredefinedMenuItem(c[1], c[2])>> \o items
                /\ pc' = IF Len(items) + 1 = Len(ItemPlan[g]) THEN "submenu" ELSE "items"
                /\ UNCHANGED setupResult
           ELSE /\ Fail(c[1])
                /\ UNCHANGED items
    /\ UNCHANGED <<platform, g, submenus, menu, installed, shortcut, lookups,
                   window, regCalls, handlers, status, delivered, focusLog>>

BuildItem_skip ==
    /\ pc = "items"
    /\ \E ok \in BOOLEAN :
        LET c == ItemPlan[g][Len(items) + 1] IN
        /\ ctorCalls' = Append(ctorCalls, [ctor |-> c[1], ok |-> ok])
        /\ items' = Append(items, IF ok THEN PredefinedMenuItem(c[1], c[2])
                                        ELSE [kind |-> "Separator"])
        /\ pc' = IF Len(items) + 1 = Len(ItemPlan[g]) THEN "submenu" ELSE "items"
        /\ UNCHANGED setupResult
    /\ UNCHANGED <<platform, g, submenus, menu, installed, shortcut, lookups,
                   window, regCalls, handlers, status, delivered, focusLog>>

\* Lines 20-22, 31-37, 46-49: the next PredefinedMenuItem constructor of
\* submenu g, followed by `?`.
BuildItem ==
    /\ pc = "items"
    /\ \E ok \in BOOLEAN :
        LET c == ItemPlan[g][Len(items) + 1] IN
        /\ ctorCalls' = Append(ctorCalls, [ctor |-> c[1], ok |-> ok])
        /\ IF ok
           THEN /\ items' = Append(items, PredefinedMenuItem(c[1], c[2]))
                /\ pc' = IF Len(items) + 1 = Len(ItemPlan[g]) THEN "submenu" ELSE "items"
                /\ UNCHANGED setupResult
           ELSE /\ Fail(c[1])
                /\ UNCHANGED items
    /\ UNCHANGED <<platform, g, submenus, menu, installed, shortcut, lookups,
                   window, regCalls, handlers, status, delivered, focusLog>>

\* Lines 15-24, 26-39, 41-51: Submenu::with_items(...)? over the items built.
BuildSubmenu ==
    /\ pc = "submenu"
    /\ \E ok \in BOOLEAN :
        /\ ctorCalls' = Append(ctorCalls, [ctor |-> "Submenu::with_items", ok |-> ok])
        /\ IF ok
           THEN /\ submenus' = Append(submenus, Submenu(SubmenuText[g], items))
                /\ items' = <<>>
                /\ IF g = Len(ItemPlan)
                   THEN pc' = "menu" /\ UNCHANGED g
                   ELSE pc' = "items" /\ g' = g + 1
                /\ UNCHANGED setupResult
           ELSE /\ Fail("Submenu::with_items")
                /\ UNCHANGED <<submenus, items, g>>
    /\ UNCHANGED <<platform, menu, installed, shortcut, lookups, window,
                   regCalls, handlers, status, delivered, focusLog>>

\* Line 53: Menu::with_items(app, &[&app_menu, &edit_menu, &window_menu])?.
BuildMenu ==
    /\ pc = "menu"
    /\ \E ok \in BOOLEAN :
        /\ ctorCalls' = Append(ctorCalls, [ctor |-> "Menu::with_items", ok |-> ok])
        /\ IF ok
           THEN /\ menu' = Some(<<submenus[1], submenus[2], submenus[3]>>)
                /\ pc' = "set_menu"
                /\ UNCHANGED setupResult
           ELSE /\ Fail("Menu::with_items")
                /\ UNCHANGED menu
    /\ UNCHANGED <<platform, g, items, submenus, installed, shortcut, lookups,
                   window, regCalls, handlers, status, delivered, focusLog>>

SetMenu_ignore ==
    /\ pc = "set_menu"
    /\ \E ok \in BOOLEAN :
        /\ installed' = Append(installed, [menu |-> menu[1], ok |-> ok])
        /\ pc' = "shortcut"
        /\ UNCHANGED setupResult
    /\ UNCHANGED <<platform, g, items, submenus, menu, ctorCalls, shortcut,
                   lookups, window, regCalls, handlers, status, delivered,
                   focusLog>>

\* Line 54: app.set_menu(menu)?.
SetMenu ==
    /\ pc = "set_menu"
    /\ \E ok \in BOOLEAN :
        /\ installed' = Append(installed, [menu |-> menu[1], ok |-> ok])
        /\ IF ok
           THEN pc' = "shortcut" /\ UNCHANGED setupResult
           ELSE Fail("set_menu")
    /\ UNCHANGED <<platform, g, items, submenus, menu, ctorCalls, shortcut,
                   lookups, window, regCalls, handlers, status, delivered,
                   focusLog>>

\* Lines 56-60: the cfg-selected shortcut binding.
SelectShortcut ==
    /\ pc = "shortcut"
    /\ shortcut' = Some(ShortcutFor(platform))
    /\ pc' = "lookup"
    /\ UNCHANGED <<platform, g, items, submenus, menu, ctorCalls, installed,
                   lookups, window, regCalls, handlers, setupResult, status,
                   delivered, focusLog>>

GetWebviewWindow_unwrap ==
    /\ pc = "lookup"
    /\ lookups' = Append(lookups, "main")
    /\ \E w \in {None, "main"} :
        /\ window' = w
        /\ pc' = "register"
    /\ UNCHANGED <<platform, g, items, submenus, menu, ctorCalls, installed,
                   shortcut, regCalls, handlers, setupResult, status, delivered,
                   focusLog>>

\* Line 63: `if let Some(window) = app.get_webview_window("main")`; on None
\* the block is skipped and control reaches line 69.
GetWebviewWindow ==
    /\ pc = "lookup"
    /\ lookups' = Append(lookups, "main")
    /\ \E w \in {None, "main"} :
        /\ window' = w
        /\ pc' = IF w # None THEN "register" ELSE "return"
    /\ UNCHANGED <<platform, g, items, submenus, menu, ctorCalls, installed,
                   shortcut, regCalls, handlers, setupResult, status, delivered,
                   focusLog>>

OnShortcut_twice ==
    /\ pc = "register"
    /\ \E ok \in BOOLEAN :
        /\ regCalls' = regCalls \o << [shortcut |-> shortcut[1], ok |-> ok],
                                      [shortcut |-> shortcut[1], ok |-> ok] >>
        /\ IF ok
           THEN /\ handlers' = handlers \cup {[shortcut |-> shortcut[1], window |-> window]}
                /\ pc' = "return"
                /\ UNCHANGED setupResult
           ELSE /\ Fail("on_shortcut")
                /\ UNCHANGED handlers
    /\ UNCHANGED <<platform, g, items, submenus, menu, ctorCalls, installed,
                   shortcut, lookups, window, status, delivered, focusLog>>

OnShortcut_swallow ==
    /\ pc = "register"
    /\ \E ok \in BOOLEAN :
        /\ regCalls' = Append(regCalls, [shortcut |-> shortcut[1], ok |-> ok])
        /\ handlers' = IF ok
                       THEN handlers \cup {[shortcut |-> shortcut[1], window |-> window]}
                       ELSE handlers
        /\ pc' = "return"
        /\ UNCHANGED setupResult
    /\ UNCHANGED <<platform, g, items, submenus, menu, ctorCalls, installed,
                   shortcut, lookups, window, status, delivered, focusLog>>

\* Lines 64-66: app.global_shortcut().on_shortcut(shortcut, move |..| {..})?.
\* The closure moves `window` into the handler the facility keeps; a
\* rejected registration keeps no handler.
OnShortcut ==
    /\ pc = "register"
    /\ \E ok \in BOOLEAN :
        /\ regCalls' = Append(regCalls, [shortcut |-> shortcut[1], ok |-> ok])
        /\ IF ok
           THEN /\ handlers' = handlers \cup {[shortcut |-> shortcut[1], window |-> window]}
                /\ pc' = "return"
                /\ UNCHANGED setupResult
           ELSE /\ Fail("on_shortcut")
                /\ UNCHANGED handlers
    /\ UNCHANGED <<platform, g, items, submenus, menu, ctorCalls, installed,
                   shortcut, lookups, window, status, delivered, focusLog>>

\* Line 69: Ok(()).
SetupOk ==
    /\ pc = "return"
    /\ setupResult' = Ok
    /\ pc' = "run"
    /\ UNCHANGED <<platform, g, items, submenus, menu, ctorCalls, installed,
                   shortcut, lookups, window, regCalls, handlers, status,
                   delivered, focusLog>>

\* Lines 71-72: .run(..).expect(..) on the closure's result: an Err panics,
\* an Ok lets the application run.
RunExpect ==
    /\ pc = "run"
    /\ status' = IF IsErr(setupResult) THEN "panicked" ELSE "running"
    /\ pc' = "done"
    /\ UNCHANGED <<platform, g, items, submenus, menu, ctorCalls, installed,
                   shortcut, lookups, window, regCalls, handlers, setupResult,
                   delivered, focusLog>>

Callback_retry ==
    /\ status # "panicked"
    /\ Len(delivered) < MaxTriggers
    /\ \E h \in handlers, e \in EventStates, focused \in BOOLEAN :
        /\ delivered' = Append(delivered, e)
        /\ focusLog' = IF focused
                       THEN Append(focusLog, [window |-> h.window, ok |-> TRUE])
                       ELSE focusLog \o << [window |-> h.window, ok |-> FALSE],
                                           [window |-> h.window, ok |-> FALSE] >>
        /\ UNCHANGED <<handlers, lookups>>
    /\ UNCHANGED <<platform, pc, g, items, submenus, menu, ctorCalls, installed,
                   shortcut, window, regCalls, setupResult, status>>

Callback_pressedOnly ==
    /\ status # "panicked"
    /\ Len(delivered) < MaxTriggers
    /\ \E h \in handlers, e \in EventStates, focused \in BOOLEAN :
        /\ delivered' = Append(delivered, e)
        /\ focusLog' = IF e = "Pressed"
                       THEN Append(focusLog, [window |-> h.window, ok |-> focused])
                       ELSE focusLog
        /\ UNCHANGED <<handlers, lookups>>
    /\ UNCHANGED <<platform, pc, g, items, submenus, menu, ctorCalls, installed,
                   shortcut, window, regCalls, setupResult, status>>

Callback_unregister ==
    /\ status # "panicked"
    /\ Len(delivered) < MaxTriggers
    /\ \E h \in handlers, e \in EventStates, focused \in BOOLEAN :
        /\ delivered' = Append(delivered, e)
        /\ focusLog' = Append(focusLog, [window |-> h.window, ok |-> focused])
        /\ handlers' = IF focused THEN handlers ELSE handlers \ {h}
        /\ UNCHANGED lookups
    /\ UNCHANGED <<platform, pc, g, items, submenus, menu, ctorCalls, installed,
                   shortcut, window, regCalls, setupResult, status>>

\* Lines 64-66, the closure body `let _ = window.set_focus();`, run for one
\* event the facility delivers to a registered handler.  The arguments
\* (_app, _shortcut, _event) are unused, the window is the one moved into
\* the closure, and the Result of set_focus is dropped.
Callback ==
    /\ status # "panicked"
    /\ Len(delivered) < MaxTriggers
    /\ \E h \in handlers, e \in EventStates, focused \in BOOLEAN :
        /\ delivered' = Append(delivered, e)
        /\ focusLog' = Append(focusLog, [window |-> h.window, ok |-> focused])
        /\ UNCHANGED <<handlers, lookups>>
    /\ UNCHANGED <<platform, pc, g, items, submenus, menu, ctorCalls, installed,
                   shortcut, window, regCalls, setupResult, status>>

Next ==
    \/ BuildItem
    \/ BuildSubmenu
    \/ BuildMenu
    \/ SetMenu
    \/ SelectShortcut
    \/ GetWebviewWindow
    \/ OnShortcut
    \/ SetupOk
    \/ RunExpect
    \/ Callback

Spec == Init /\ [][Next]_vars

\* ---- Properties ----

\* The combination the target platform calls for, written out.
ExpectedCombination ==
    IF platform = "macos" THEN [mods |-> {"SUPER"}, key |-> "KeyK"]
    ELSE [mods |-> {"CONTROL"}, key |-> "KeyK"]

LookupAbsent == lookups # <<>> /\ window = None
LookupPresent == lookups # <<>> /\ window # None
Registered == handlers # {}

\* C1: when menu construction and installation succeeded and the lookup of
\* "main" returned absent, no on_shortcut call is made, no handler exists,
\* and the setup closure returns Ok (the application goes on to run).
C1_AbsentSkipsRegistration ==
    LookupAbsent =>
        /\ lookups = <<"main">>
        /\ regCalls = <<>>
        /\ handlers = {}
        /\ setupResult \in {Nothing, Ok}
        /\ pc \in {"return", "run", "done"}
        /\ (pc # "return" => setupResult = Ok)
        /\ (pc = "done" => status = "running")

C1_Witness ==
    /\ LookupAbsent
    /\ Len(installed) = 1 /\ installed[1].ok
    /\ pc = "done" /\ setupResult = Ok /\ regCalls = <<>>

\* C2: when the lookup of "main" returned present, exactly one on_shortcut
\* call is made and its combination is the platform's: {SUPER, KeyK} on
\* macos, {CONTROL, KeyK} elsewhere.
C2_PresentRegistersOnce ==
    /\ Len(regCalls) <= 1
    /\ (LookupPresent /\ pc # "register") =>
           /\ Len(regCalls) = 1
           /\ regCalls[1].shortcut = ExpectedCombination

C2_Witness ==
    /\ LookupPresent /\ pc = "done"
    /\ Len(regCalls) = 1 /\ regCalls[1].shortcut = ExpectedCombination

\* C3: a rejected registration makes the setup closure return Err, which
\* panics run(); and once the shortcut binder has been entered (the window
\* lookup was made) a rejected registration is the only cause of an Err:
\* neither an absent window nor a failed focus request yields one.
C3_RejectionIsFatal ==
    /\ (regCalls # <<>> /\ ~regCalls[1].ok) =>
           /\ setupResult = Err("on_shortcut")
           /\ handlers = {}
           /\ pc \in {"run", "done"}
           /\ (pc = "done" => status = "panicked")
    /\ (lookups # <<>> /\ (IsErr(setupResult) \/ status = "panicked")) =>
           (LookupPresent /\ regCalls # <<>> /\ ~regCalls[1].ok)

C3_Witness ==
    /\ LookupPresent /\ regCalls # <<>> /\ ~regCalls[1].ok
    /\ pc = "done" /\ status = "panicked"

\* C4: after a successful registration, N callback invocations make exactly
\* N focus requests, all on the captured window, whatever the outcomes; a
\* failed focus request raises no error (no Err, no panic), is not retried,
\* and leaves the handler in place for the next invocation.
C4_NTriggersNFocusRequests ==
    /\ Len(focusLog) = Len(delivered)
    /\ \A i \in 1..Len(focusLog) :
           /\ focusLog[i].window = window
           /\ window = "main"
    /\ delivered # <<>> =>
           /\ ~IsErr(setupResult)
           /\ status # "panicked"
           /\ handlers = {[shortcut |-> ExpectedCombination, window |-> "main"]}

C4_Witness ==
    /\ Len(delivered) >= 3
    /\ ~focusLog[1].ok /\ focusLog[2].ok /\ ~focusLog[3].ok
    /\ Len(focusLog) = Len(delivered)

\* C5: on every platform the selected combination has key K and exactly one
\* of CONTROL and SUPER: SUPER on macos, CONTROL on every other platform.
C5_PlatformModifier ==
    shortcut # Nothing =>
        /\ shortcut[1].key = "KeyK"
        /\ Cardinality(shortcut[1].mods \cap {"CONTROL", "SUPER"}) = 1
        /\ ("SUPER" \in shortcut[1].mods <=> platform = "macos")
        /\ ("CONTROL" \in shortcut[1].mods <=> platform # "macos")

C5_Witness ==
    shortcut # Nothing /\ platform = "macos" /\ "SUPER" \in shortcut[1].mods

\* C6: when the set_menu call fails, the setup closure returns Err (run()
\* panics) and neither a window lookup nor an on_shortcut call is made.
C6_InstallFailureStopsSetup ==
    (installed # <<>> /\ ~installed[1].ok) =>
        /\ IsErr(setupResult)
        /\ pc \in {"run", "done"}
        /\ (pc = "done" => status = "panicked")
        /\ lookups = <<>>
        /\ regCalls = <<>>
        /\ handlers = {}

C6_Witness ==
    /\ installed # <<>> /\ ~installed[1].ok
    /\ pc = "done" /\ status = "panicked" /\ lookups = <<>>

\* C7: the binder goes Unregistered -> Registered at most once: only by the
\* first and only on_shortcut call, never when the lookup returned absent,
\* always when lookup and registration succeeded; once Registered the
\* handler set never changes again (no unregister, no re-register).
C7_State ==
    /\ Cardinality(handlers) <= 1
    /\ (window = None => ~Registered)
    /\ (Registered <=> (LookupPresent /\ regCalls # <<>> /\ regCalls[1].ok))
C7_Step ==
    /\ (Registered => handlers' = handlers)
    /\ ((~Registered /\ Registered') => (regCalls = <<>> /\ Len(regCalls') = 1))
C7_RegisteredOnceForGood == []C7_State /\ [][C7_Step]_vars

C7_Witness == Registered /\ delivered # <<>> /\ ~focusLog[1].ok /\ pc = "done"

\* The shape the menu tree must have: group labels and item kinds in order.
ExpectedGroups == <<"Bolt", "Edit", "Window">>
ExpectedKinds ==
    << <<"About", "Separator", "Quit">>,
       <<"Undo", "Redo", "Separator", "Cut", "Copy", "Paste", "SelectAll">>,
       <<"Minimize", "Maximize", "Separator", "Close">> >>
GroupsOf(m) == [i \in 1..Len(m) |-> m[i].label]
KindsOf(m) == [i \in 1..Len(m) |->
                  [j \in 1..Len(m[i].children) |-> m[i].children[j].kind]]

\* C8: every finished menu tree, in every run and on every platform, is the
\* same tree: groups application, Edit, Window in that order with the item
\* kinds About, separator, Quit / Undo, Redo, separator, Cut, Copy, Paste,
\* SelectAll / Minimize, Maximize, separator, Close; and a finished tree is
\* handed to set_menu exactly once in its setup run.
C8_MenuTreeDeterministic ==
    /\ Len(installed) <= 1
    /\ menu # Nothing =>
           /\ GroupsOf(menu[1]) = ExpectedGroups
           /\ KindsOf(menu[1]) = ExpectedKinds
           /\ (pc # "set_menu" => (Len(installed) = 1 /\ installed[1].menu = menu[1]))
    /\ (installed # <<>> => (menu # Nothing /\ installed[1].menu = menu[1]))

C8_Witness ==
    /\ Len(installed) = 1 /\ menu # Nothing /\ installed[1].menu = menu[1]
    /\ KindsOf(menu[1]) = ExpectedKinds /\ pc = "done"

CtorFailed == \E i \in 1..Len(ctorCalls) : ~ctorCalls[i].ok

\* C9 as stated: building the menu nodes cannot fail, so a setup failure
\* that arises before the shortcut binder is an installation failure.
C9_ConstructionCannotFail ==
    /\ ~CtorFailed
    /\ (IsErr(setupResult) /\ lookups = <<>>) =>
           (installed # <<>> /\ ~installed[1].ok)

\* C9 amended: every menu-node constructor is fallible and its error is
\* returned at once by `?`: after a failed constructor nothing more is
\* built, set_menu is not called, the binder is not entered and setup
\* returns that constructor's error; when every constructor succeeded, a
\* setup failure before the binder is the failure of the set_menu call.
C9_ConstructorErrorsPropagate ==
    /\ CtorFailed =>
           /\ ~ctorCalls[Len(ctorCalls)].ok
           /\ \A i \in 1..(Len(ctorCalls) - 1) : ctorCalls[i].ok
           /\ setupResult = Err(ctorCalls[Len(ctorCalls)].ctor)
           /\ menu = Nothing /\ installed = <<>>
           /\ lookups = <<>> /\ regCalls = <<>>
           /\ (pc = "done" => status = "panicked")
    /\ (~CtorFailed /\ IsErr(setupResult) /\ lookups = <<>>) =>
           (Len(installed) = 1 /\ ~installed[1].ok /\ setupResult = Err("set_menu"))

C9_Witness ==
    /\ CtorFailed /\ Len(ctorCalls) > 3
    /\ pc = "done" /\ status = "panicked" /\ installed = <<>>

\* C10: the callback acts the same on every delivered event, key-pressed or
\* key-released: each delivery makes one focus request on the window captured
\* at registration, so a press followed by a release makes two; the callback
\* makes no window lookup of its own.
C10_State ==
    /\ Len(focusLog) =
           Cardinality({i \in 1..Len(delivered) : delivered[i] = "Pressed"})
         + Cardinality({i \in 1..Len(delivered) : delivered[i] = "Released"})
    /\ \A i \in 1..Len(focusLog) : \E h \in handlers : focusLog[i].window = h.window
    /\ Len(lookups) <= 1
C10_Step ==
    delivered' # delivered =>
        /\ Len(focusLog') = Len(focusLog) + 1
        /\ lookups' = lookups
        /\ shortcut' = shortcut /\ window' = window
C10_EveryEventFocuses == []C10_State /\ [][C10_Step]_vars

C10_Witness ==
    /\ Len(delivered) >= 2
    /\ delivered[1] = "Pressed" /\ delivered[2] = "Released"
    /\ Len(focusLog) = Len(delivered) /\ lookups = <<"main">>
====
